---- MODULE Spec2Model ----
(***************************************************************************)
(* Model of the request path of the Z.AI web search agent:                 *)
(*   src/src/agent/rate_limiter.py     RateLimiter (token bucket)          *)
(*   src/src/agent/web_search_agent.py WebSearchAgent: retry controller,   *)
(*                                     transport, search entry points      *)
(*   src/src/agent/models.py           SearchRequest validation            *)
(*   src/src/agent/auth.py             ZAIAuthenticator                    *)
(*                                                                         *)
(* Time is a discrete clock `now` counted in ticks.  The tick is chosen    *)
(* fine enough that time_window / max_requests is a whole number of ticks. *)
(* The float `tokens` of the code is kept exactly, as the integer          *)
(* tokens * time_window: one token is time_window units, and the refill    *)
(* elapsed * (max_requests / time_window) is elapsed * max_requests units. *)
(* Rounding of the floating-point arithmetic is not modelled.              *)
(*                                                                         *)
(* The specifications share the definitions:                               *)
(*   Spec        threads calling the limiter's methods concurrently        *)
(*   SpecBucket  one caller issuing acquire_token calls at any times       *)
(*   SpecRetry   one caller running _make_request_with_retry               *)
(*   SpecBackoff the same with a larger max_retries and fewer outcomes     *)
(*   SpecLoop    the same with the default backoff values                  *)
(*   SpecCall    SpecRetry's call with a caller that keeps running         *)
(*   SpecSearch  one search or search_with_request on a new agent          *)
(*   SpecTransform _transform_api_response on every payload and request    *)
(*   SpecReset   one caller issuing acquire_token, reset and               *)
(*               get_available_tokens calls                                *)
(*   SpecLock    two threads calling the methods that change the bucket    *)
(*   SpecWaiters three threads calling wait_if_needed once each            *)
(*   SpecAuth    ZAIAuthenticator(...) and _validate_api_key on every key  *)
(*   SpecConcurrent two threads running _make_request_with_retry at once    *)
(***************************************************************************)
EXTENDS Integers, Sequences, FiniteSets, TLC

\* ------------------------------------------------------------- bounds
MaxCapacity == 2
MaxWindow == 3
MaxTime == 3
MaxCalls == 3
MaxLog == 4
MaxRetries == 3
MaxBackoffRetries == 7
MaxUrlLen == 4
MaxResults == 2

\* {20,} of ZAIAuthenticator.API_KEY_PATTERN, {32} of ZAIConfig.API_KEY_PATTERN
MinKeyLen == 20
KeyBodyLen == 32

\* the threads that share one limiter: three, as in the concurrency tests;
\* Workers are the two of them that call any method in any order
Threads == {"t1", "t2", "t3"}
Workers == {"t1", "t2"}
NoThread == "none"

VARIABLES
    max_requests,    \* RateLimiter.max_requests
    time_window,     \* RateLimiter.time_window, in ticks
    tokens,          \* RateLimiter.tokens, in units of 1/time_window token
    last_refill,     \* RateLimiter.last_refill
    lock,            \* RateLimiter.lock: the thread holding it, or NoThread
    now,             \* time.time()
    pc,              \* per thread: position inside the method it is running
    op,              \* per thread: the limiter method it is running
    start_time,      \* per thread: wait_if_needed's local start_time
    wake,            \* per thread: the time its time.sleep() may return
    calls,           \* number of calls made so far, over all threads
    obs,             \* what the locked section that just ended saw and did
    wlog,            \* per thread: record of its current/last wait_if_needed
    count,           \* totals over all threads
    log,             \* one caller: (time, method, results, tokens left) of each call
    max_retries,     \* WebSearchAgent.max_retries
    initial_backoff, \* WebSearchAgent.initial_backoff
    max_backoff,     \* WebSearchAgent.max_backoff
    authenticator,   \* WebSearchAgent.authenticator
    in_call,         \* per thread: inside _make_request_with_retry
    retry_count,     \* per thread: local retry_count
    backoff_time,    \* per thread: local backoff_time
    last_exception,  \* per thread: local last_exception
    handling,        \* per thread: the exception whose handler is sleeping
    outcomes,        \* per thread: outcome of each _make_request of the call
    sleeps,          \* per thread: duration of each time.sleep of the call
    trace,           \* per thread: the call's events, in order
    result,          \* per thread: how the last call ended
    request,         \* per thread: the SearchRequest its search is serving
    response,        \* per thread: how its search ended
    auth_call        \* ZAIAuthenticator(...): its arguments and how it ended

limiterVars == <<max_requests, time_window, tokens, last_refill, lock, now>>
threadVars == <<pc, op, start_time, wake, calls>>
histVars == <<obs, wlog, count, log>>
agentVars == <<max_retries, initial_backoff, max_backoff, authenticator, auth_call>>
retryVars == <<in_call, retry_count, backoff_time, last_exception, handling,
               outcomes, sleeps, trace, result>>
searchVars == <<request, response>>
vars == <<limiterVars, threadVars, histVars, agentVars, retryVars, searchVars>>

\* ------------------------------------------------------ rate limiter
Min(a, b) == IF a <= b THEN a ELSE b

tokens_to_add_PerSecond(elapsed, mr, tw) == elapsed * tw

\* tokens_to_add = elapsed_time * (max_requests / time_window), in units
tokens_to_add(elapsed, mr, tw) == elapsed * mr

refill_NoCap(tok, elapsed, mr, tw) == tok + tokens_to_add(elapsed, mr, tw)

refill_tokens_Whole(tok, elapsed, mr, tw) ==
    Min(mr * tw, ((tok + tokens_to_add(elapsed, mr, tw)) \div tw) * tw)

\* self.tokens = min(self.max_requests, self.tokens + tokens_to_add)
refill_tokens(tok, elapsed, mr, tw) ==
    Min(mr * tw, tok + tokens_to_add(elapsed, mr, tw))

has_token_Positive(tok, tw) == tok > 0

\* self.tokens >= 1
has_token(tok, tw) == tok >= tw

take_token_None(tok, tw) == tok

\* self.tokens -= 1
take_token(tok, tw) == tok - tw

\* if self.tokens >= 1: self.tokens -= 1  (and whether a token was taken)
try_take(tok, tw) ==
    IF has_token(tok, tw) THEN [ok |-> TRUE, tokens |-> take_token(tok, tw)]
    ELSE [ok |-> FALSE, tokens |-> tok]

int_tokens_Ceil(tok, tw) == (tok + tw - 1) \div tw

\* int(self.tokens)
int_tokens(tok, tw) == tok \div tw

reset_tokens_One(mr, tw) == tw

\* self.tokens = self.max_requests
reset_tokens(mr, tw) == mr * tw

time_until_token_Window(mr, tw) == tw
time_until_token_Zero(mr, tw) == 0

\* time_until_token = self.time_window / self.max_requests
time_until_token(mr, tw) == tw \div mr

\* self.tokens after _refill_tokens() at the present time
Refilled == refill_tokens(tokens, now - last_refill, max_requests, time_window)

\* obs describes the locked section executed by the last step (NoObs after any
\* other step): the thread, the method, tokens and elapsed time on entry, tokens
\* on exit, the boolean and the number it computed, and the sleep it asked for
NoObs == [t |-> NoThread, op |-> "none", before |-> 0, elapsed |-> 0, after |-> 0,
          ok |-> FALSE, val |-> 0, sleep |-> 0]
Observe(t, o, after, ok, val, d) ==
    [t |-> t, op |-> o, before |-> tokens, elapsed |-> now - last_refill,
     after |-> after, ok |-> ok, val |-> val, sleep |-> d]
\* wlog[t] describes the current (or last) wait_if_needed call of thread t
NoWait == [sleeps |-> 0, taken |-> 0, waited |-> 0, done |-> FALSE]

\* RateLimiter.__init__: positive max_requests and time_window, full bucket
Configs ==
    {c \in (1..MaxCapacity) \X (1..MaxWindow) : c[2] % c[1] = 0}

InitLimiter ==
    /\ \E c \in Configs : max_requests = c[1] /\ time_window = c[2]
    /\ tokens = max_requests * time_window
    /\ last_refill = 0
    /\ now = 0
    /\ lock = NoThread

InitThreads ==
    /\ pc = [t \in Threads |-> "idle"]
    /\ op = [t \in Threads |-> "none"]
    /\ start_time = [t \in Threads |-> 0]
    /\ wake = [t \in Threads |-> 0]
    /\ calls = 0

InitHist ==
    /\ obs = NoObs
    /\ wlog = [t \in Threads |-> NoWait]
    /\ count = [acq_calls |-> 0, acq_true |-> 0, wait_returned |-> 0,
                wait_taken |-> 0, resets |-> 0]
    /\ log = <<>>

Methods == {"acquire_token", "wait_if_needed", "can_make_request",
            "get_available_tokens", "get_time_until_next_token", "reset"}

\* where a thread continues when wait_if_needed returns
Back(t) == IF in_call[t] THEN "init" ELSE "idle"

\* the clock advances by one tick
Tick ==
    /\ now < MaxTime
    /\ now' = now + 1
    /\ obs' = NoObs
    /\ UNCHANGED <<max_requests, time_window, tokens, last_refill, lock>>
    /\ UNCHANGED <<threadVars, wlog, count, log, agentVars, searchVars, retryVars>>

\* a thread calls one of the limiter's methods
Call(t, m) ==
    /\ pc[t] = "idle"
    /\ calls < MaxCalls
    /\ calls' = calls + 1
    /\ op' = [op EXCEPT ![t] = m]
    /\ pc' = [pc EXCEPT ![t] = "lock1"]
    \* start_time = time.time()
    /\ start_time' = [start_time EXCEPT ![t] = IF m = "wait_if_needed" THEN now ELSE @]
    /\ wlog' = [wlog EXCEPT ![t] = NoWait]
    /\ obs' = NoObs
    /\ UNCHANGED <<limiterVars, wake, count, log, agentVars, searchVars, retryVars>>

\* `with self.lock:` is entered
AcquireLock(t) ==
    /\ pc[t] \in {"lock1", "lock2"}
    /\ lock = NoThread
    /\ lock' = t
    /\ pc' = [pc EXCEPT ![t] = IF pc[t] = "lock1" THEN "cs1" ELSE "cs2"]
    /\ obs' = NoObs
    /\ UNCHANGED <<max_requests, time_window, tokens, last_refill, now>>
    /\ UNCHANGED <<op, start_time, wake, calls, wlog, count, log>>
    /\ UNCHANGED <<agentVars, searchVars, retryVars>>

InSection(t, m) == pc[t] = "cs1" /\ op[t] = m /\ lock = t

\* the holder of the lock after thread t leaves its "with self.lock:" block
\* for nextpc: nobody, time.sleep included, which is outside the block
lock_on_exit_HeldAsleep(t, nextpc) == IF nextpc = "sleep" THEN t ELSE NoThread
lock_on_exit(t, nextpc) == NoThread

\* what every locked section does besides its own work: _refill_tokens sets
\* last_refill (reset sets it itself), and the lock is released on exit
Section(t, nextpc) ==
    /\ last_refill' = now
    /\ lock' = lock_on_exit(t, nextpc)
    /\ pc' = [pc EXCEPT ![t] = nextpc]
    /\ op' = [op EXCEPT ![t] = IF nextpc \in {"idle", "init"} THEN "none" ELSE @]
    /\ UNCHANGED <<max_requests, time_window, now, start_time, calls, log>>
    /\ UNCHANGED <<agentVars, searchVars, retryVars>>

acquire_token(t) ==
    /\ InSection(t, "acquire_token")
    /\ LET r == try_take(Refilled, time_window)
       IN /\ tokens' = r.tokens
          /\ obs' = Observe(t, "acquire_token", r.tokens, r.ok, 0, 0)
          /\ count' = [count EXCEPT !.acq_calls = @ + 1,
                                    !.acq_true = IF r.ok THEN @ + 1 ELSE @]
    /\ Section(t, "idle")
    /\ UNCHANGED <<wake, wlog>>

can_make_request(t) ==
    /\ InSection(t, "can_make_request")
    /\ LET r == Refilled
       IN /\ tokens' = r
          /\ obs' = Observe(t, "can_make_request", r, has_token(r, time_window), 0, 0)
    /\ Section(t, "idle")
    /\ UNCHANGED <<wake, wlog, count>>

get_available_tokens(t) ==
    /\ InSection(t, "get_available_tokens")
    /\ LET r == Refilled
       IN /\ tokens' = r
          /\ obs' = Observe(t, "get_available_tokens", r, TRUE,
                            int_tokens(r, time_window), 0)
    /\ Section(t, "idle")
    /\ UNCHANGED <<wake, wlog, count>>

get_time_until_next_token(t) ==
    /\ InSection(t, "get_time_until_next_token")
    /\ LET r == Refilled
           v == IF has_token(r, time_window) THEN 0
                ELSE time_until_token(max_requests, time_window)
       IN /\ tokens' = r
          /\ obs' = Observe(t, "get_time_until_next_token", r, TRUE, v, 0)
    /\ Section(t, "idle")
    /\ UNCHANGED <<wake, wlog, count>>

reset(t) ==
    /\ InSection(t, "reset")
    /\ tokens' = reset_tokens(max_requests, time_window)
    /\ obs' = Observe(t, "reset", reset_tokens(max_requests, time_window), TRUE, 0, 0)
    /\ count' = [count EXCEPT !.resets = @ + 1]
    /\ Section(t, "idle")
    /\ UNCHANGED <<wake, wlog>>

\* wait_if_needed, first locked section: take a token and return 0.0, or
\* compute time_until_token and leave the section to sleep
wait_if_needed(t) ==
    /\ InSection(t, "wait_if_needed")
    /\ LET r == try_take(Refilled, time_window)
           d == time_until_token(max_requests, time_window)
       IN /\ tokens' = r.tokens
          /\ IF r.ok
             THEN /\ Section(t, Back(t))
                  /\ obs' = Observe(t, "wait_if_needed", r.tokens, TRUE, 0, 0)
                  /\ wlog' = [wlog EXCEPT ![t] =
                                 [@ EXCEPT !.taken = @ + 1, !.done = TRUE]]
                  /\ count' = [count EXCEPT !.wait_returned = @ + 1,
                                            !.wait_taken = @ + 1]
                  /\ wake' = wake
             ELSE /\ Section(t, "sleep")
                  /\ obs' = Observe(t, "wait_if_needed", r.tokens, FALSE, 0, d)
                  /\ wlog' = [wlog EXCEPT ![t] = [@ EXCEPT !.sleeps = @ + 1]]
                  /\ count' = count
                  /\ wake' = [wake EXCEPT ![t] = now + d]

\* time.sleep(time_until_token) returns, not before the time asked for
wake_up(t) ==
    /\ pc[t] = "sleep"
    /\ now >= wake[t]
    /\ pc' = [pc EXCEPT ![t] = "lock2"]
    /\ wake' = [wake EXCEPT ![t] = 0]
    /\ obs' = NoObs
    /\ UNCHANGED <<limiterVars, op, start_time, calls, wlog, count, log>>
    /\ UNCHANGED <<agentVars, searchVars, retryVars>>

\* wait_if_needed, second locked section: take a token if there is one
wait_after_sleep(t) ==
    /\ pc[t] = "cs2" /\ lock = t
    /\ LET r == try_take(Refilled, time_window)
       IN /\ tokens' = r.tokens
          /\ obs' = Observe(t, "wait_after_sleep", r.tokens, r.ok, 0, 0)
          /\ wlog' = [wlog EXCEPT ![t] = [@ EXCEPT !.taken = IF r.ok THEN @ + 1 ELSE @]]
          /\ count' = [count EXCEPT !.wait_taken = IF r.ok THEN @ + 1 ELSE @]
    /\ Section(t, "ret")
    /\ UNCHANGED wake

\* wait_time = time.time() - start_time; return wait_time
wait_return(t) ==
    /\ pc[t] = "ret"
    /\ pc' = [pc EXCEPT ![t] = Back(t)]
    /\ wlog' = [wlog EXCEPT ![t] =
                   [@ EXCEPT !.waited = now - start_time[t], !.done = TRUE]]
    /\ count' = [count EXCEPT !.wait_returned = @ + 1]
    /\ op' = [op EXCEPT ![t] = "none"]
    /\ start_time' = [start_time EXCEPT ![t] = 0]
    /\ obs' = NoObs
    /\ UNCHANGED <<limiterVars, wake, calls, log, agentVars, searchVars, retryVars>>

\* one caller, nobody else: a whole acquire_token call (the lock is free, so
\* entering it, the locked section and the return are one step)
acquire_token_call ==
    /\ Len(log) < MaxLog
    /\ LET r == try_take(Refilled, time_window)
       IN /\ tokens' = r.tokens
          /\ log' = Append(log, [at |-> now, op |-> "acquire_token",
                                 ok |-> r.ok, val |-> 0, left |-> r.tokens])
    /\ last_refill' = now
    /\ obs' = NoObs
    /\ UNCHANGED <<max_requests, time_window, lock, now>>
    /\ UNCHANGED <<threadVars, wlog, count, agentVars, searchVars, retryVars>>

\* one caller: a whole reset call
reset_call ==
    /\ Len(log) < MaxLog
    /\ tokens' = reset_tokens(max_requests, time_window)
    /\ last_refill' = now
    /\ log' = Append(log, [at |-> now, op |-> "reset", ok |-> TRUE, val |-> 0,
                           left |-> reset_tokens(max_requests, time_window)])
    /\ obs' = NoObs
    /\ UNCHANGED <<max_requests, time_window, lock, now>>
    /\ UNCHANGED <<threadVars, wlog, count, agentVars, searchVars, retryVars>>

\* one caller: a whole get_available_tokens call
get_available_tokens_call ==
    /\ Len(log) < MaxLog
    /\ tokens' = Refilled
    /\ last_refill' = now
    /\ log' = Append(log, [at |-> now, op |-> "get_available_tokens", ok |-> TRUE,
                           val |-> int_tokens(Refilled, time_window),
                           left |-> Refilled])
    /\ obs' = NoObs
    /\ UNCHANGED <<max_requests, time_window, lock, now>>
    /\ UNCHANGED <<threadVars, wlog, count, agentVars, searchVars, retryVars>>

\* --------------------------------------------------- retry controller
\* status_code = None
NoStatus == 0

\* a ZAIApiError (or subclass) instance: its class, message, status_code and
\* response_data (a set of key/value pairs; {} when absent)
Exc(kind, msg, status, data) ==
    [kind |-> kind, message |-> msg, status_code |-> status, response_data |-> data]

\* last_exception = None
NoException == Exc("None", "", NoStatus, {})

\* ZAIApiError(message): status_code and response_data take their defaults
ZAIApiError(msg) == Exc("ZAIApiError", msg, NoStatus, {})

\* retry_after values a 429 body may carry
RetryAfters == {0, 2}

\* the failures _make_request raises for the status codes it classifies
Failures ==
    {Exc("ZAIAuthenticationError",
         "Authentication failed. Please check your API key.", 401, {}),
     Exc("ZAIInvalidRequestError",
         "Invalid request. Please check your parameters.", 400, {}),
     Exc("ZAIServerError", "Server error with status code 500", 500, {}),
     Exc("ZAIApiError", "API request failed with status code 404", 404, {}),
     Exc("ZAIRateLimitError", "Rate limit exceeded. Please try again later.", 429, {})}
    \cup {Exc("ZAIRateLimitError", "Rate limit exceeded. Please try again later.",
              429, {<<"retry_after", r>>}) : r \in RetryAfters}

\* ---------------------------------------------------------- transport
\* self.authenticator: a ZAIAuthenticator, or None
Authenticated == "key"
NoAuthenticator == "none"

\* a key the dict does not have, and a key whose value is JSON null
AbsentField == "<absent>"
NullField == "<null>"

\* a url is a string held as the list of its pieces: each "/" is a piece of
\* its own and no other piece contains "/"; AbsentUrl stands for a dict
\* without the "url" key
AbsentUrl == <<AbsentField>>

\* an entry of the payload's "results" list: a JSON object with its title, its
\* url and its other keys (snippet, position, published_date, thumbnail_url)
\* as key/value pairs, or a JSON value that is not an object
EntryWith(title, url, fields) ==
    [json |-> "object", title |-> title, url |-> url, fields |-> fields]
Entry(title, url) == EntryWith(title, url, {})
NotAnObject ==
    [json |-> "string", title |-> AbsentField, url |-> AbsentUrl, fields |-> {}]

\* a parsed JSON body: an object with its "results" list and its other keys
\* (retry_after, total_results, search_time, has_more, next_page_token) as
\* key/value pairs, or a JSON value that is not an object
JsonObject(fields, results) ==
    [json |-> "object", fields |-> fields, results |-> results]
JsonArray == [json |-> "array", fields |-> {}, results |-> <<>>]
NoBody == [json |-> "none", fields |-> {}, results |-> <<>>]

\* what requests.get gives: a response with its status code and content
\* (empty, JSON text or text that is not JSON), or a raised RequestException.
\* json_error is the class of the error response.json() raises on content
\* that is not JSON: requests' own JSONDecodeError (a RequestException) or
\* json.JSONDecodeError, depending on the installed requests
HttpResponse(status, content, body, err) ==
    [net |-> "response", status_code |-> status, content |-> content,
     body |-> body, json_error |-> err]
NetworkError(kind) ==
    [net |-> kind, status_code |-> NoStatus, content |-> "empty",
     body |-> NoBody, json_error |-> "none"]
NotSent == NetworkError("none")

Statuses == {200, 400, 401, 404, 429, 500}
JsonErrors == {"RequestException", "JSONDecodeError"}

ExampleUrl == <<"https:", "/", "/", "example.com", "/", "1">>

Payloads ==
    {JsonObject({}, <<>>),
     JsonObject({}, <<Entry("Test Result 1", ExampleUrl)>>),
     JsonObject({}, <<Entry(AbsentField, AbsentUrl), Entry(NullField, ExampleUrl)>>),
     JsonObject({}, <<NotAnObject>>),
     JsonArray}

\* what one _make_request call gives: the parsed body, or a failure
Outcomes ==
    {[ok |-> TRUE, exc |-> NoException, data |-> b] :
        b \in {JsonObject({}, <<>>),
               JsonObject({}, <<Entry("Test Result 1", ExampleUrl)>>)}}
    \cup {[ok |-> FALSE, exc |-> e, data |-> NoBody] : e \in Failures}

ErrorBodies(status) ==
    {JsonObject({}, <<>>)} \cup
    (IF status = 429
     THEN {JsonObject({<<"retry_after", r>>}, <<>>) : r \in RetryAfters}
     ELSE {})

NetworkResponses ==
    {NetworkError(k) : k \in {"timeout", "connection", "error"}}
    \cup UNION {
        {HttpResponse(st, "json", b, "none") :
            b \in IF st = 200 THEN Payloads ELSE ErrorBodies(st)}
        \cup {HttpResponse(st, c, NoBody, e) :
                 c \in {"empty", "invalid"}, e \in JsonErrors} : st \in Statuses}

\* exceptions that are not ZAIApiError
AttributeError == Exc("AttributeError", "", NoStatus, {})
ValidationError == Exc("ValidationError", "", NoStatus, {})

\* what one _make_request call does: its result (ok, exc, data), the number
\* of requests.get calls it made and what requests.get gave it
Outcome(ok, exc, data, sent, r) ==
    [ok |-> ok, exc |-> exc, data |-> data, sent |-> sent, response |-> r]
Raise(exc, sent, r) == Outcome(FALSE, exc, NoBody, sent, r)

\* response.json()
json_of(r) ==
    IF r.content = "json" THEN [ok |-> TRUE, value |-> r.body]
    ELSE [ok |-> FALSE, value |-> NoBody]

\* response.json() if response.content else {}
error_body(r) ==
    IF r.content = "empty" THEN [ok |-> TRUE, value |-> JsonObject({}, <<>>)]
    ELSE json_of(r)

json_failure_Uncaught(r) == Exc("JSONDecodeError", "", NoStatus, {})

\* the except clause an error of response.json() lands in
json_failure(r) ==
    IF r.json_error = "RequestException"
    THEN ZAIApiError("Request failed: invalid JSON")
    ELSE ZAIApiError("Failed to parse API response as JSON")

\* the exception raised for a status code that is not 200
status_failure(status, data) ==
    IF status = 401
    THEN Exc("ZAIAuthenticationError",
             "Authentication failed. Please check your API key.", status, data)
    ELSE IF status = 429
    THEN Exc("ZAIRateLimitError",
             "Rate limit exceeded. Please try again later.", status, data)
    ELSE IF status = 400
    THEN Exc("ZAIInvalidRequestError",
             "Invalid request. Please check your parameters.", status, data)
    ELSE IF 500 <= status /\ status < 600
    THEN Exc("ZAIServerError",
             "Server error with status code " \o ToString(status), status, data)
    ELSE Exc("ZAIApiError",
             "API request failed with status code " \o ToString(status), status, data)

\* _make_request from requests.get on: r is what requests.get gives
request_get(r) ==
    IF r.net = "timeout"
    THEN Raise(ZAIApiError("Request timed out after 30 seconds"), 1, r)
    ELSE IF r.net = "connection"
    THEN Raise(ZAIApiError("Failed to connect to the Z.AI API"), 1, r)
    ELSE IF r.net = "error"
    THEN Raise(ZAIApiError("Request failed: error"), 1, r)
    ELSE IF r.status_code # 200
    THEN LET b == error_body(r)
         IN IF b.ok
            THEN Raise(status_failure(r.status_code, b.value.fields), 1, r)
            ELSE Raise(json_failure(r), 1, r)
    ELSE LET b == json_of(r)
         IN IF ~b.ok THEN Raise(json_failure(r), 1, r)
            \* response_data.get('results', []) of the debug message
            ELSE IF b.value.json # "object" THEN Raise(AttributeError, 1, r)
            ELSE Outcome(TRUE, NoException, b.value, 1, r)

_make_request_Unchecked(auth, r) == request_get(r)

\* _make_request: if not self.authenticator: raise ZAIAuthenticationError
_make_request(auth, r) ==
    IF auth = NoAuthenticator
    THEN Raise(Exc("ZAIAuthenticationError",
                   "No authenticator available. Please provide valid API credentials.",
                   NoStatus, {}), 0, NotSent)
    ELSE request_get(r)

\* the exceptions the except clauses of _make_request_with_retry catch
is_caught(e) ==
    e.kind \in {"ZAIApiError", "ZAIAuthenticationError", "ZAIRateLimitError",
                "ZAIInvalidRequestError", "ZAIServerError", "RequestException"}

is_fatal_AuthOnly(e) == e.kind = "ZAIAuthenticationError"

\* except ZAIAuthenticationError / except ZAIInvalidRequestError: raise e
is_fatal(e) == e.kind \in {"ZAIAuthenticationError", "ZAIInvalidRequestError"}

\* e.response_data['retry_after'] when the key is there and the value is truthy,
\* else 0 (retry_after stays None or falsy)
retry_after_of(e) ==
    LET found == {p \in e.response_data : p[1] = "retry_after"}
    IN IF found = {} THEN 0 ELSE (CHOOSE p \in found : TRUE)[2]

\* the duration the handler of e sleeps for
sleep_time(e, backoff) ==
    IF e.kind = "ZAIRateLimitError" /\ retry_after_of(e) # 0
    THEN retry_after_of(e)
    ELSE backoff

next_backoff_Always(e, backoff, cap) == Min(backoff * 2, cap)

next_backoff_NoCap(e, backoff, cap) ==
    IF e.kind = "ZAIRateLimitError" /\ retry_after_of(e) # 0
    THEN backoff
    ELSE backoff * 2

\* backoff_time after the handler of e has slept
next_backoff(e, backoff, cap) ==
    IF e.kind = "ZAIRateLimitError" /\ retry_after_of(e) # 0
    THEN backoff
    ELSE Min(backoff * 2, cap)

\* what the handler of e stores in last_exception
recorded(e) ==
    IF e.kind = "ZAIRateLimitError" THEN e ELSE ZAIApiError(e.message)

after_handler_Readmit ==
    [pc |-> "lock1", op |-> "wait_if_needed", events |-> <<"wait">>]

\* after a handler the while loop goes round again: wait_if_needed is called
\* before the loop only
after_handler == [pc |-> "loop", op |-> "none", events |-> <<>>]

\* how a call of _make_request_with_retry ended: the payload it returned or
\* the exception it raised
Result(status, exc, data) == [status |-> status, exc |-> exc, data |-> data]
NoResult == Result("none", NoException, NoBody)

\* return self._make_request(endpoint, params)
returned_value_Empty(o) == JsonObject({}, <<>>)
returned_value(o) == o.data

\* raise last_exception or ZAIApiError("Request failed after maximum retries")
exhausted_exception_Last(last) == last
exhausted_exception(last) ==
    IF last # NoException THEN last
    ELSE ZAIApiError("Request failed after maximum retries")

loop_condition_OneMore(count_, limit) == count_ <= limit + 1

\* while retry_count <= self.max_retries
loop_condition(count_, limit) == count_ <= limit

\* constructor arguments of WebSearchAgent (it validates none of them)
RetryLimits == (-1)..MaxRetries
InitialBackoffs == {1, 4}
MaxBackoffs == {3, 60}

\* ----------------------------------------------------- authenticator
\* an API key is a string held as the list of its characters; NoneKey is None
NoneKey == <<"None">>
Rep(c, n) == [i \in 1..n |-> c]

Alnum == {"z", "a", "i", "1"}
KeyChars == Alnum \cup {".", "_", "-"}

\* the keys of the tests, by shape: no prefix, zai_ or zai-, then digits or
\* characters no pattern allows
KeyLens == {0, 5, 16, 20, 30, KeyBodyLen, KeyBodyLen + 1}
Keys ==
    {p \o Rep(c, n) :
        p \in {<<>>, <<"z", "a", "i", "_">>, <<"z", "a", "i", "-">>},
        c \in {"1", "!"}, n \in KeyLens}

\* a ZAIConfig with its api_key, or None
Config(key) == [present |-> TRUE, api_key |-> key]
NoConfig == [present |-> FALSE, api_key |-> <<>>]

\* ZAIAuthenticator.API_KEY_PATTERN.match: ^[a-zA-Z0-9._-]{20,}$
auth_pattern_match(key) ==
    /\ Len(key) >= MinKeyLen
    /\ \A i \in DOMAIN key : key[i] \in KeyChars

\* ZAIConfig.API_KEY_PATTERN.match: ^zai_[a-zA-Z0-9]{32}$
config_pattern_match(key) ==
    /\ Len(key) = 4 + KeyBodyLen
    /\ SubSeq(key, 1, 4) = <<"z", "a", "i", "_">>
    /\ \A i \in 5..Len(key) : key[i] \in Alnum

\* bool(api_key)
truthy(key) == key # NoneKey /\ key # <<>>

\* _validate_api_key(api_key): the exception it raises, if any
_validate_api_key(key) ==
    IF ~truthy(key)
    THEN Exc("ZAIInvalidRequestError", "API key cannot be empty", NoStatus, {})
    ELSE IF ~auth_pattern_match(key)
    THEN Exc("ZAIInvalidRequestError", "Invalid API key format", NoStatus, {})
    ELSE NoException

\* the key __init__ goes on with: api_key if given, else config.api_key
chosen_key_ConfigFirst(config, api_key) ==
    IF config.present /\ truthy(config.api_key) THEN config.api_key
    ELSE IF truthy(api_key) THEN api_key
    ELSE NoneKey
chosen_key(config, api_key) ==
    IF truthy(api_key) THEN api_key
    ELSE IF config.present /\ truthy(config.api_key) THEN config.api_key
    ELSE NoneKey

\* the arguments of ZAIAuthenticator(config, api_key); how the call ended:
\* self.api_key of the object created or the exception raised; and the key and
\* the verdict of a later auth._validate_api_key(key)
Construction(config, api_key, status, key, exc) ==
    [config |-> config, api_key |-> api_key, status |-> status, key |-> key,
     exc |-> exc, checked |-> NoneKey, verdict |-> NoException]
NoAuth == Construction(NoConfig, NoneKey, "none", NoneKey, NoException)

\* ZAIAuthenticator.__init__
ZAIAuthenticator(config, api_key) ==
    LET key == chosen_key(config, api_key)
    IN IF key = NoneKey
       THEN Construction(config, api_key, "raised", NoneKey,
                Exc("ZAIAuthenticationError",
                    "API key is required for authentication", NoStatus, {}))
       ELSE IF _validate_api_key(key) # NoException
       THEN Construction(config, api_key, "raised", NoneKey, _validate_api_key(key))
       ELSE Construction(config, api_key, "created", key, NoException)

\* ZAIAuthenticator(config=..., api_key=...) is called
construct ==
    /\ auth_call.status = "none"
    /\ auth_call' = ZAIAuthenticator(auth_call.config, auth_call.api_key)
    /\ obs' = NoObs
    /\ UNCHANGED <<limiterVars, threadVars, wlog, count, log>>
    /\ UNCHANGED <<max_retries, initial_backoff, max_backoff, authenticator>>
    /\ UNCHANGED <<retryVars, searchVars>>

\* _validate_api_key(key) is called on an authenticator
validate(key) ==
    /\ auth_call.status = "created"
    /\ auth_call.checked = NoneKey
    /\ auth_call' = [auth_call EXCEPT !.checked = key, !.verdict = _validate_api_key(key)]
    /\ obs' = NoObs
    /\ UNCHANGED <<limiterVars, threadVars, wlog, count, log>>
    /\ UNCHANGED <<max_retries, initial_backoff, max_backoff, authenticator>>
    /\ UNCHANGED <<retryVars, searchVars>>

\* ------------------------------------------------------------- search
\* an optional argument left at None
None == "None"

\* the arguments of search(), as SearchRequest(...) receives them
DefaultArgs ==
    [query |-> "test query", num_results |-> 10, search_type |-> "web",
     language |-> None, region |-> None, safe_search |-> "moderate"]

SearchArgs ==
    {DefaultArgs, [DefaultArgs EXCEPT !.query = ""]}
    \cup {[DefaultArgs EXCEPT !.num_results = n] : n \in {0, 20, 21}}
    \cup {[DefaultArgs EXCEPT !.search_type = "video"]}
    \cup {[DefaultArgs EXCEPT !.language = l] : l \in {"", "eng"}}
    \cup {[DefaultArgs EXCEPT !.region = "USA"]}
    \cup {[DefaultArgs EXCEPT !.safe_search = "none"]}

\* the fields of SearchRequest whose Field constraint or validator rejects
\* the value given
validation_errors(a) ==
    {f \in {"num_results", "search_type", "language", "region", "safe_search"} :
        \/ f = "num_results" /\ ~(1 <= a.num_results /\ a.num_results <= 20)
        \/ f = "search_type" /\ a.search_type \notin {"web", "news", "images"}
        \/ f = "safe_search" /\ a.safe_search \notin {"moderate", "strict", "off"}
        \* if v and len(v) != 2
        \/ f = "language" /\ a.language \notin {None, ""} /\ Len(a.language) # 2
        \/ f = "region" /\ a.region \notin {None, ""} /\ Len(a.region) # 2}

\* the SearchRequest objects the constructor can build
SearchRequests == {a \in SearchArgs : validation_errors(a) = {}}

NoRequest == [DefaultArgs EXCEPT !.query = None, !.num_results = 0]

\* the payloads _transform_api_response is applied to: urls of up to MaxUrlLen
\* pieces and the urls of the tests, entries with any of their optional keys,
\* "results" lists of up to MaxResults entries with any of the payload's keys
Urls ==
    UNION {[1..k -> {"/", "a"}] : k \in 0..MaxUrlLen}
    \cup {ExampleUrl,
          <<"https:", "/", "/", "example.com">>,
          <<"https:", "/", "/", "example.com", "/", "test">>,
          <<"https:", "/", "/", "example.com", "/", "path?q=1">>}

EntryFields ==
    {<<"snippet", "This is a test snippet">>, <<"position", 1>>,
     <<"published_date", "2023-01-01">>,
     <<"thumbnail_url", "https://example.com/thumb.jpg">>}

TopFields ==
    {<<"total_results", 100>>, <<"search_time", 5>>, <<"has_more", TRUE>>,
     <<"next_page_token", "abc123">>}

ListEntries ==
    {Entry("Test Result 1", ExampleUrl),
     Entry("Test Result 2", <<"https:", "/", "/", "example.com", "/", "2">>),
     Entry(NullField, ExampleUrl),
     NotAnObject}

TransformPayloads ==
    {JsonObject(top, res) :
        top \in SUBSET TopFields,
        res \in UNION {[1..k -> ListEntries] : k \in 0..MaxResults}}
    \cup {JsonObject({}, <<Entry("Test Result", u)>>) : u \in Urls \cup {AbsentUrl}}
    \cup {JsonObject({}, <<EntryWith(t, ExampleUrl, f)>>) :
              t \in {"Test Result", AbsentField}, f \in SUBSET EntryFields}

TransformRequests ==
    {DefaultArgs, [DefaultArgs EXCEPT !.query = "python", !.search_type = "news"]}

\* SearchResult(...) and SearchResponse(...), as models.py declares them
SearchResult(title, url, snippet, position, domain, published_date, thumbnail_url) ==
    [title |-> title, url |-> url, snippet |-> snippet, position |-> position,
     domain |-> domain, published_date |-> published_date,
     thumbnail_url |-> thumbnail_url]
SearchResponse(query, search_type, total, results, search_time, has_more, token) ==
    [query |-> query, search_type |-> search_type, total_results |-> total,
     results |-> results, search_time |-> search_time, has_more |-> has_more,
     next_page_token |-> token]
NoValue == SearchResponse("", "", 0, <<>>, 0, FALSE, None)

\* how a search ended: returned a SearchResponse or raised an exception
NoSearch == [status |-> "none", exc |-> NoException, value |-> NoValue]
Returned(v) == [status |-> "returned", exc |-> NoException, value |-> v]
Raised(e) == [status |-> "raised", exc |-> e, value |-> NoValue]

\* dict.get(key, default) on the key/value pairs of a JSON object
get_Default(fields, key, default) == default
get(fields, key, default) ==
    IF \E p \in fields : p[1] = key
    THEN (CHOOSE p \in fields : p[1] = key)[2]
    ELSE default

\* url.split("/"): the pieces between one "/" and the next, joined
RECURSIVE split(_)
split(url) ==
    IF url = <<>> THEN <<"">>
    ELSE LET rest == split(Tail(url))
         IN IF Head(url) = "/" THEN <<"">> \o rest
            ELSE <<Head(url) \o Head(rest)>> \o Tail(rest)

\* url.split("/")[2] if "/" in url and len(url.split("/")) > 2 else ""
domain_of_NeedsPath(url) ==
    IF (\E i \in DOMAIN url : url[i] = "/") /\ Len(split(url)) > 3
    THEN split(url)[3] ELSE ""
domain_of_Second(url) ==
    IF (\E i \in DOMAIN url : url[i] = "/") /\ Len(split(url)) > 2
    THEN split(url)[2] ELSE ""
domain_of(url) ==
    IF (\E i \in DOMAIN url : url[i] = "/") /\ Len(split(url)) > 2
    THEN split(url)[3] ELSE ""

\* the body of the loop of _transform_api_response for one entry:
\* result_data.get(...) needs a dict, SearchResult(...) needs a str title
transform_entry(e) ==
    IF e.json # "object" THEN Raised(AttributeError)
    ELSE LET url == IF e.url = AbsentUrl THEN <<>> ELSE e.url
             title == IF e.title = AbsentField THEN "" ELSE e.title
         IN IF title = NullField THEN Raised(ValidationError)
            ELSE Returned(SearchResponse("", "", 0,
                     <<SearchResult(title, url, get(e.fields, "snippet", ""),
                                    get(e.fields, "position", 0), domain_of(url),
                                    get(e.fields, "published_date", None),
                                    get(e.fields, "thumbnail_url", None))>>,
                     0, FALSE, None))

\* results.append(result), entry after entry
collect_Reversed(done) ==
    [i \in DOMAIN done |-> done[Len(done) + 1 - i].value.results[1]]
collect(done) == [i \in DOMAIN done |-> done[i].value.results[1]]

_transform_api_response(api_response, req) ==
    LET entries == api_response.results
        done == [i \in DOMAIN entries |-> transform_entry(entries[i])]
        failed == {i \in DOMAIN entries : done[i].status = "raised"}
        results == collect(done)
    IN IF failed # {}
       THEN done[CHOOSE i \in failed : \A j \in failed : i <= j]
       ELSE Returned(SearchResponse(req.query, req.search_type,
                get(api_response.fields, "total_results", Len(results)),
                results,
                get(api_response.fields, "search_time", 0),
                get(api_response.fields, "has_more", FALSE),
                get(api_response.fields, "next_page_token", None)))

InitCalls ==
    /\ request = [t \in Threads |-> NoRequest]
    /\ response = [t \in Threads |-> NoSearch]
    /\ in_call = [t \in Threads |-> FALSE]
    /\ retry_count = [t \in Threads |-> 0]
    /\ backoff_time = [t \in Threads |-> 0]
    /\ last_exception = [t \in Threads |-> NoException]
    /\ handling = [t \in Threads |-> NoException]
    /\ outcomes = [t \in Threads |-> <<>>]
    /\ sleeps = [t \in Threads |-> <<>>]
    /\ trace = [t \in Threads |-> <<>>]
    /\ result = [t \in Threads |-> NoResult]

\* the defaults of WebSearchAgent.__init__
InitDefaultAgent ==
    /\ authenticator = Authenticated
    /\ auth_call = NoAuth
    /\ max_retries = 3
    /\ initial_backoff = 1
    /\ max_backoff = 60

InitAgent ==
    /\ authenticator = Authenticated
    /\ auth_call = NoAuth
    /\ max_retries \in RetryLimits
    /\ initial_backoff \in InitialBackoffs
    /\ max_backoff \in MaxBackoffs

\* where _make_request_with_retry is called from, and where it returns to:
\* search (line 361) or search_with_request (line 389) when the thread is
\* serving a SearchRequest, else a direct caller
Entry_pc(t) == IF request[t] = NoRequest THEN "idle" ELSE "call"
Return_pc(t) == IF request[t] = NoRequest THEN "idle" ELSE "back"

\* _make_request_with_retry is called: it calls rate_limiter.wait_if_needed().
\* Each thread makes one call, followed from its start to its end.
make_request_with_retry(t) ==
    /\ pc[t] = Entry_pc(t)
    /\ trace[t] = <<>>
    /\ calls' = calls + 1
    /\ in_call' = [in_call EXCEPT ![t] = TRUE]
    /\ op' = [op EXCEPT ![t] = "wait_if_needed"]
    /\ pc' = [pc EXCEPT ![t] = "lock1"]
    /\ start_time' = [start_time EXCEPT ![t] = now]
    /\ wlog' = [wlog EXCEPT ![t] = NoWait]
    /\ trace' = [trace EXCEPT ![t] = <<"wait">>]
    /\ outcomes' = [outcomes EXCEPT ![t] = <<>>]
    /\ sleeps' = [sleeps EXCEPT ![t] = <<>>]
    /\ result' = [result EXCEPT ![t] = NoResult]
    /\ obs' = NoObs
    /\ UNCHANGED <<limiterVars, wake, count, log, agentVars, searchVars>>
    /\ UNCHANGED <<retry_count, backoff_time, last_exception, handling>>

frame_Shared(t) == "t1"

\* retry_count, backoff_time, last_exception and the handler's e are local
\* variables of _make_request_with_retry: every call has its own
frame(t) == t

\* wait_if_needed has returned: the retry variables are initialised
retry_init(t) ==
    /\ pc[t] = "init"
    /\ retry_count' = [retry_count EXCEPT ![frame(t)] = 0]
    /\ backoff_time' = [backoff_time EXCEPT ![frame(t)] = initial_backoff]
    /\ last_exception' = [last_exception EXCEPT ![frame(t)] = NoException]
    /\ pc' = [pc EXCEPT ![t] = "loop"]
    /\ obs' = NoObs
    /\ UNCHANGED <<limiterVars, op, start_time, wake, calls, wlog, count, log>>
    /\ UNCHANGED <<agentVars, searchVars, in_call, handling, outcomes, sleeps, trace, result>>

\* the call ends (return or raise): its locals are gone
Finish(t, res) ==
    /\ pc' = [pc EXCEPT ![t] = Return_pc(t)]
    /\ in_call' = [in_call EXCEPT ![t] = FALSE]
    /\ result' = [result EXCEPT ![t] = res]
    /\ retry_count' = [retry_count EXCEPT ![frame(t)] = 0]
    /\ backoff_time' = [backoff_time EXCEPT ![frame(t)] = 0]
    /\ last_exception' = [last_exception EXCEPT ![frame(t)] = NoException]
    /\ handling' = handling

\* one round of the while loop: _make_request gives outcome o; the call returns
\* the body, re-raises a fatal failure, or starts the sleep of the handler
make_request(t, o) ==
    /\ pc[t] = "loop"
    /\ loop_condition(retry_count[frame(t)], max_retries)
    /\ outcomes' = [outcomes EXCEPT ![t] = Append(@, o)]
    /\ IF o.ok
       THEN /\ Finish(t, Result("returned", NoException, returned_value(o)))
            /\ trace' = [trace EXCEPT ![t] = Append(@, "request")]
            /\ sleeps' = sleeps
       ELSE IF is_fatal(o.exc) \/ ~is_caught(o.exc)
       THEN /\ Finish(t, Result("raised", o.exc, NoBody))
            /\ trace' = [trace EXCEPT ![t] = Append(@, "request")]
            /\ sleeps' = sleeps
       ELSE /\ pc' = [pc EXCEPT ![t] = "backoff"]
            /\ handling' = [handling EXCEPT ![frame(t)] = o.exc]
            /\ sleeps' = [sleeps EXCEPT ![t] = Append(@, sleep_time(o.exc, backoff_time[frame(t)]))]
            /\ trace' = [trace EXCEPT ![t] = @ \o <<"request", "sleep">>]
            /\ UNCHANGED <<in_call, result, retry_count, backoff_time, last_exception>>
    /\ obs' = NoObs
    /\ UNCHANGED <<limiterVars, op, start_time, wake, calls, wlog, count, log, agentVars, searchVars>>

\* time.sleep of a handler returns: the handler updates backoff_time,
\* retry_count and last_exception, and the loop goes round
after_sleep(t) ==
    /\ pc[t] = "backoff"
    /\ backoff_time' = [backoff_time EXCEPT ![frame(t)] =
                           next_backoff(handling[frame(t)], @, max_backoff)]
    /\ retry_count' = [retry_count EXCEPT ![frame(t)] = @ + 1]
    /\ last_exception' = [last_exception EXCEPT ![frame(t)] = recorded(handling[frame(t)])]
    /\ handling' = [handling EXCEPT ![frame(t)] = NoException]
    /\ pc' = [pc EXCEPT ![t] = after_handler.pc]
    /\ op' = [op EXCEPT ![t] = after_handler.op]
    /\ trace' = [trace EXCEPT ![t] = @ \o after_handler.events]
    /\ obs' = NoObs
    /\ UNCHANGED <<limiterVars, start_time, wake, calls, wlog, count, log, agentVars, searchVars>>
    /\ UNCHANGED <<in_call, outcomes, sleeps, result>>

\* the loop condition fails:
\* raise last_exception or ZAIApiError("Request failed after maximum retries")
retries_exhausted(t) ==
    /\ pc[t] = "loop"
    /\ ~loop_condition(retry_count[frame(t)], max_retries)
    /\ Finish(t, Result("raised", exhausted_exception(last_exception[frame(t)]), NoBody))
    /\ obs' = NoObs
    /\ UNCHANGED <<limiterVars, op, start_time, wake, calls, wlog, count, log>>
    /\ UNCHANGED <<agentVars, searchVars, outcomes, sleeps, trace>>

\* search(...): SearchRequest(...) validates the arguments; a valid request
\* goes on to _make_request_with_retry
search(t, a) ==
    /\ pc[t] = "idle"
    /\ calls = 0
    /\ request[t] = NoRequest /\ response[t] = NoSearch
    /\ IF validation_errors(a) # {}
       THEN /\ response' = [response EXCEPT ![t] = Raised(ValidationError)]
            /\ UNCHANGED <<request, pc>>
       ELSE /\ request' = [request EXCEPT ![t] = a]
            /\ pc' = [pc EXCEPT ![t] = "call"]
            /\ response' = response
    /\ obs' = NoObs
    /\ UNCHANGED <<limiterVars, op, start_time, wake, calls, wlog, count, log>>
    /\ UNCHANGED <<agentVars, retryVars>>

\* search_with_request(request): the SearchRequest was built by the caller
search_with_request(t, req) ==
    /\ pc[t] = "idle"
    /\ calls = 0
    /\ request[t] = NoRequest /\ response[t] = NoSearch
    /\ request' = [request EXCEPT ![t] = req]
    /\ pc' = [pc EXCEPT ![t] = "call"]
    /\ obs' = NoObs
    /\ UNCHANGED <<limiterVars, op, start_time, wake, calls, wlog, count, log>>
    /\ UNCHANGED <<agentVars, retryVars, response>>

\* _make_request_with_retry has ended: its exception goes on to the caller
\* of search; its payload is transformed and the SearchResponse returned
search_return(t) ==
    /\ pc[t] = "back"
    /\ response' = [response EXCEPT ![t] =
           IF result[t].status = "raised" THEN Raised(result[t].exc)
           ELSE _transform_api_response(result[t].data, request[t])]
    /\ pc' = [pc EXCEPT ![t] = "idle"]
    /\ obs' = NoObs
    /\ UNCHANGED <<limiterVars, op, start_time, wake, calls, wlog, count, log>>
    /\ UNCHANGED <<agentVars, retryVars, request>>

\* ------------------------------------------------------ specifications
Init == InitLimiter /\ InitThreads /\ InitHist /\ InitDefaultAgent /\ InitCalls

Next ==
    \/ Tick
    \/ \E t \in Workers, m \in Methods : Call(t, m)
    \/ \E t \in Workers : AcquireLock(t)
    \/ \E t \in Workers : acquire_token(t)
    \/ \E t \in Workers : can_make_request(t)
    \/ \E t \in Workers : get_available_tokens(t)
    \/ \E t \in Workers : get_time_until_next_token(t)
    \/ \E t \in Workers : reset(t)
    \/ \E t \in Workers : wait_if_needed(t)
    \/ \E t \in Workers : wake_up(t)
    \/ \E t \in Workers : wait_after_sleep(t)
    \/ \E t \in Workers : wait_return(t)

Spec == Init /\ [][Next]_vars

NextBucket == Tick \/ acquire_token_call

SpecBucket == Init /\ [][NextBucket]_vars

\* every thread calls wait_if_needed once, and the clock stands still until
\* each of them has been through the first locked section
first_check_done(t) == wlog[t].done \/ pc[t] \in {"sleep", "lock2", "cs2", "ret"}

TickAfterChecks == (\A t \in Threads : first_check_done(t)) /\ Tick

NextWaiters ==
    \/ TickAfterChecks
    \/ \E t \in Threads : wlog[t] = NoWait /\ Call(t, "wait_if_needed")
    \/ \E t \in Threads : AcquireLock(t)
    \/ \E t \in Threads : wait_if_needed(t)
    \/ \E t \in Threads : wake_up(t)
    \/ \E t \in Threads : wait_after_sleep(t)
    \/ \E t \in Threads : wait_return(t)

SpecWaiters == Init /\ [][NextWaiters]_vars

\* one caller that also resets the limiter and reads the token count
NextReset ==
    \/ Tick
    \/ acquire_token_call
    \/ reset_call
    \/ get_available_tokens_call

SpecReset == Init /\ [][NextReset]_vars

Caller == {"t1"}

\* the limiter of the agent in SpecRetry: one token per window, the bucket
\* full (a new agent) or emptied by the agent's earlier calls
RetryConfigs == {c \in Configs : c[1] = 1 /\ c[2] <= 2}

InitRetryLimiter ==
    /\ \E c \in RetryConfigs : max_requests = c[1] /\ time_window = c[2]
    /\ tokens \in {0, max_requests * time_window}
    /\ last_refill = 0
    /\ now = 0
    /\ lock = NoThread

InitRetry ==
    InitRetryLimiter /\ InitThreads /\ InitHist /\ InitAgent /\ InitCalls

\* the retry loop never reads the clock: only wait_if_needed does, before the
\* loop.  The clock of SpecRetry advances until wait_if_needed has returned
TickBeforeLoop ==
    /\ \A t \in Caller : pc[t] \notin {"init", "loop", "backoff"}
                          /\ result[t] = NoResult
    /\ Tick

NextRetry ==
    \/ TickBeforeLoop
    \/ \E t \in Caller : make_request_with_retry(t)
    \/ \E t \in Caller : AcquireLock(t)
    \/ \E t \in Caller : wait_if_needed(t)
    \/ \E t \in Caller : wake_up(t)
    \/ \E t \in Caller : wait_after_sleep(t)
    \/ \E t \in Caller : wait_return(t)
    \/ \E t \in Caller : retry_init(t)
    \/ \E t \in Caller, o \in Outcomes : make_request(t, o)
    \/ \E t \in Caller : after_sleep(t)
    \/ \E t \in Caller : retries_exhausted(t)

SpecRetry == InitRetry /\ [][NextRetry]_vars

\* the same call on an agent with the default backoff values and any
\* max_retries
InitLoop ==
    /\ InitRetryLimiter /\ InitThreads /\ InitHist /\ InitCalls
    /\ authenticator = Authenticated
    /\ auth_call = NoAuth
    /\ max_retries \in RetryLimits
    /\ initial_backoff = 1
    /\ max_backoff = 60

SpecLoop == InitLoop /\ [][NextRetry]_vars

\* two threads on one limiter of one token per window, calling the methods
\* that take the lock around a change of the bucket
LockMethods == {"acquire_token", "wait_if_needed", "get_available_tokens", "reset"}

InitLock ==
    InitRetryLimiter /\ InitThreads /\ InitHist /\ InitDefaultAgent /\ InitCalls

NextLock ==
    \/ Tick
    \/ \E t \in Workers, m \in LockMethods : Call(t, m)
    \/ \E t \in Workers : AcquireLock(t)
    \/ \E t \in Workers : acquire_token(t)
    \/ \E t \in Workers : get_available_tokens(t)
    \/ \E t \in Workers : reset(t)
    \/ \E t \in Workers : wait_if_needed(t)
    \/ \E t \in Workers : wake_up(t)
    \/ \E t \in Workers : wait_after_sleep(t)
    \/ \E t \in Workers : wait_return(t)

SpecLock == InitLock /\ [][NextLock]_vars

\* an agent given a larger max_retries, facing a server that answers, fails
\* with a 5xx, or fails with a 429 with or without a retry_after of 2
BackoffOutcomes ==
    {o \in Outcomes :
        \/ o.ok
        \/ o.exc.kind = "ZAIServerError"
        \/ o.exc.kind = "ZAIRateLimitError" /\ <<"retry_after", 0>> \notin o.exc.response_data}

InitBackoff ==
    /\ InitRetryLimiter /\ InitThreads /\ InitHist /\ InitCalls
    /\ authenticator = Authenticated
    /\ auth_call = NoAuth
    /\ max_retries = MaxBackoffRetries
    /\ initial_backoff \in InitialBackoffs
    /\ max_backoff \in MaxBackoffs

\* the clock advances while the caller is inside time.sleep of wait_if_needed
TickAsleep ==
    /\ \E t \in Caller : pc[t] = "sleep" /\ now < wake[t]
    /\ Tick

NextBackoff ==
    \/ TickAsleep
    \/ \E t \in Caller : make_request_with_retry(t)
    \/ \E t \in Caller : AcquireLock(t)
    \/ \E t \in Caller : wait_if_needed(t)
    \/ \E t \in Caller : wake_up(t)
    \/ \E t \in Caller : wait_after_sleep(t)
    \/ \E t \in Caller : wait_return(t)
    \/ \E t \in Caller : retry_init(t)
    \/ \E t \in Caller, o \in BackoffOutcomes : make_request(t, o)
    \/ \E t \in Caller : after_sleep(t)
    \/ \E t \in Caller : retries_exhausted(t)

SpecBackoff == InitBackoff /\ [][NextBackoff]_vars

\* two threads call _make_request_with_retry on one agent at the same time;
\* the server answers, fails with a 500, a 429 with a retry_after of 2, or a 401
ConcurrentOutcomes ==
    {o \in Outcomes :
        \/ o.ok /\ o.data.results # <<>>
        \/ o.exc.kind \in {"ZAIServerError", "ZAIAuthenticationError"}
        \/ o.exc.kind = "ZAIRateLimitError" /\ <<"retry_after", 2>> \in o.exc.response_data}

InitConcurrent ==
    /\ InitRetryLimiter /\ InitThreads /\ InitHist /\ InitCalls
    /\ authenticator = Authenticated
    /\ auth_call = NoAuth
    /\ max_retries \in {1, 2}
    /\ initial_backoff = 1
    /\ max_backoff = 3

\* the clock advances while a caller is inside time.sleep of wait_if_needed
TickWaiting ==
    /\ \E t \in Workers : pc[t] = "sleep" /\ now < wake[t]
    /\ Tick

NextConcurrent ==
    \/ TickWaiting
    \/ \E t \in Workers : make_request_with_retry(t)
    \/ \E t \in Workers : AcquireLock(t)
    \/ \E t \in Workers : wait_if_needed(t)
    \/ \E t \in Workers : wake_up(t)
    \/ \E t \in Workers : wait_after_sleep(t)
    \/ \E t \in Workers : wait_return(t)
    \/ \E t \in Workers : retry_init(t)
    \/ \E t \in Workers, o \in ConcurrentOutcomes : make_request(t, o)
    \/ \E t \in Workers : after_sleep(t)
    \/ \E t \in Workers : retries_exhausted(t)

SpecConcurrent == InitConcurrent /\ [][NextConcurrent]_vars

\* the steps of a call of _make_request_with_retry once it has been made
CallSteps ==
    \/ TickAsleep
    \/ \E t \in Caller : AcquireLock(t)
    \/ \E t \in Caller : wait_if_needed(t)
    \/ \E t \in Caller : wake_up(t)
    \/ \E t \in Caller : wait_after_sleep(t)
    \/ \E t \in Caller : wait_return(t)
    \/ \E t \in Caller : retry_init(t)
    \/ \E t \in Caller, o \in Outcomes : make_request(t, o)
    \/ \E t \in Caller : after_sleep(t)
    \/ \E t \in Caller : retries_exhausted(t)

NextCall ==
    \/ \E t \in Caller : make_request_with_retry(t)
    \/ CallSteps

\* the calling thread keeps running: the lock is free when it asks for it,
\* time.sleep and requests.get (which has a timeout) return
SpecCall == InitRetry /\ [][NextCall]_vars /\ WF_vars(CallSteps)

\* an agent built with or without valid credentials, asked for one search
InitSearch ==
    /\ InitRetryLimiter /\ InitThreads /\ InitHist /\ InitCalls
    /\ authenticator \in {Authenticated, NoAuthenticator}
    /\ auth_call = NoAuth
    /\ max_retries \in {0, 1}
    /\ initial_backoff = 1
    /\ max_backoff = 60

NextSearch ==
    \/ TickAsleep
    \/ \E t \in Caller, a \in SearchArgs : search(t, a)
    \/ \E t \in Caller, req \in SearchRequests : search_with_request(t, req)
    \/ \E t \in Caller : request[t] # NoRequest /\ make_request_with_retry(t)
    \/ \E t \in Caller : AcquireLock(t)
    \/ \E t \in Caller : wait_if_needed(t)
    \/ \E t \in Caller : wake_up(t)
    \/ \E t \in Caller : wait_after_sleep(t)
    \/ \E t \in Caller : wait_return(t)
    \/ \E t \in Caller : retry_init(t)
    \/ \E t \in Caller, r \in NetworkResponses :
           make_request(t, _make_request(authenticator, r))
    \/ \E t \in Caller : after_sleep(t)
    \/ \E t \in Caller : retries_exhausted(t)
    \/ \E t \in Caller : search_return(t)

SpecSearch == InitSearch /\ [][NextSearch]_vars

\* ZAIAuthenticator(config, api_key) for every pair of arguments, and
\* _validate_api_key on the authenticators created
InitAuth ==
    /\ InitLimiter /\ InitThreads /\ InitHist /\ InitCalls
    /\ max_requests = 1 /\ time_window = 1
    /\ authenticator = NoAuthenticator
    /\ max_retries = 3
    /\ initial_backoff = 1
    /\ max_backoff = 60
    /\ \E c \in {NoConfig} \cup {Config(k) : k \in Keys},
          k \in {NoneKey} \cup Keys :
           auth_call = Construction(c, k, "none", NoneKey, NoException)

NextAuth ==
    \/ construct
    \/ \E k \in Keys : validate(k)

SpecAuth == InitAuth /\ [][NextAuth]_vars

\* _transform_api_response as a function of its arguments: the caller is back
\* from _make_request_with_retry with a payload, for a request
InitTransform ==
    /\ InitRetryLimiter /\ InitHist /\ InitDefaultAgent
    /\ pc = [t \in Threads |-> IF t \in Caller THEN "back" ELSE "idle"]
    /\ op = [t \in Threads |-> "none"]
    /\ start_time = [t \in Threads |-> 0]
    /\ wake = [t \in Threads |-> 0]
    /\ calls = 1
    /\ \E req \in TransformRequests :
           request = [t \in Threads |-> IF t \in Caller THEN req ELSE NoRequest]
    /\ response = [t \in Threads |-> NoSearch]
    /\ in_call = [t \in Threads |-> FALSE]
    /\ retry_count = [t \in Threads |-> 0]
    /\ backoff_time = [t \in Threads |-> 0]
    /\ last_exception = [t \in Threads |-> NoException]
    /\ handling = [t \in Threads |-> NoException]
    /\ \E b \in TransformPayloads :
           outcomes = [t \in Threads |->
               IF t \in Caller
               THEN <<Outcome(TRUE, NoException, b, 1,
                              HttpResponse(200, "json", b, "none"))>>
               ELSE <<>>]
    /\ sleeps = [t \in Threads |-> <<>>]
    /\ trace = [t \in Threads |-> IF t \in Caller THEN <<"wait", "request">> ELSE <<>>]
    /\ result = [t \in Threads |->
           IF t \in Caller THEN Result("returned", NoException, outcomes[t][1].data)
           ELSE NoResult]

NextTransform == \E t \in Caller : search_return(t)

SpecTransform == InitTransform /\ [][NextTransform]_vars

\* ------------------------------------------------------------- claims
Full == max_requests * time_window

\* tokens after a refill, written out from the entry values of a section
RefillOf(o) == Min(Full, o.before + o.elapsed * max_requests)

\* C1: in every reachable state of the limiter, whatever the interleaving of
\* its methods and the time between them, 0 <= tokens <= max_requests.
C1_TokensInRange == 0 <= tokens /\ tokens <= Full

\* tokens were taken by acquire_token and by wait_if_needed, the bucket was
\* reset, and time has passed
C1_Witness ==
    /\ count.acq_true > 0
    /\ count.wait_taken > 0
    /\ count.resets > 0
    /\ now > 0

\* C2: acquire_token refills, then returns True and takes exactly one token
\* iff the refilled count is at least one token; otherwise it returns False
\* and leaves the refilled count.
C2_AcquireToken ==
    obs.op = "acquire_token" =>
        /\ obs.ok <=> RefillOf(obs) >= time_window
        /\ obs.ok => obs.after = RefillOf(obs) - time_window
        /\ ~obs.ok => obs.after = RefillOf(obs)
        /\ tokens = obs.after
        /\ last_refill = now

\* an acquire_token that succeeded only because of the refill
C2_Witness ==
    /\ obs.op = "acquire_token"
    /\ obs.ok
    /\ obs.before < time_window
    /\ obs.elapsed > 0

\* C3: threads calling acquire_token on a full bucket while no time passes
\* succeed at most max_requests times, and exactly max_requests times once
\* max_requests calls have been made.
C3_ConcurrentAdmission ==
    (now = 0 /\ count.resets = 0 /\ count.wait_taken = 0) =>
        /\ count.acq_true <= max_requests
        /\ count.acq_calls >= max_requests => count.acq_true = max_requests

\* more calls than tokens were made at time 0 on a bucket of two tokens or more
C3_Witness ==
    /\ now = 0
    /\ count.resets = 0 /\ count.wait_taken = 0
    /\ max_requests >= 2
    /\ count.acq_calls > max_requests

\* the successful acquire_token calls of the log made at a time in [a, a+w]
SuccessesIn(a, w) ==
    Cardinality({k \in DOMAIN log : log[k].ok /\ a <= log[k].at /\ log[k].at <= a + w})

\* ceil(capacity * w / time_window) + capacity
BucketBound(w) == ((max_requests * w + time_window - 1) \div time_window) + max_requests

\* C4: the acquire_token calls that succeed inside any interval of length W
\* are at most ceil(C*W/T) + C.
C4_BucketBound ==
    \A a \in 0..MaxTime, w \in 0..MaxTime : SuccessesIn(a, w) <= BucketBound(w)

\* an interval of positive length in which the bound is reached
C4_Witness ==
    \E a \in 0..MaxTime, w \in 1..MaxTime : SuccessesIn(a, w) = BucketBound(w)

\* the first max_requests calls of the log were made back to back
BackToBack ==
    /\ Len(log) >= max_requests
    /\ \A k \in 1..max_requests : log[k].at = log[1].at

\* C5: from a full bucket exactly max_requests back-to-back calls succeed;
\* afterwards every call fails while less than time_window/max_requests has
\* passed since the bucket was emptied, failed calls in between or not, and
\* the first call made after that time succeeds.
C5_EmptiedBucket ==
    BackToBack =>
        /\ \A k \in 1..max_requests : log[k].ok
        /\ \A k \in (max_requests + 1)..Len(log) :
              (\A j \in (max_requests + 1)..(k - 1) : ~log[j].ok) =>
                  (log[k].ok <=>
                     (log[k].at - log[1].at) * max_requests >= time_window)

\* a burst, then a failed call after some time, then a call that succeeds
C5_Witness ==
    /\ BackToBack
    /\ Len(log) >= max_requests + 2
    /\ log[Len(log)].ok
    /\ ~log[Len(log) - 1].ok
    /\ log[Len(log) - 1].at > log[1].at

C7_WaitTakesToken ==
    /\ \A t \in Threads : wlog[t].done => wlog[t].taken = 1
    /\ count.wait_returned <= count.wait_taken

Occurrences(s, x) == Cardinality({i \in DOMAIN s : s[i] = x})

\* C8: a call of _make_request_with_retry calls wait_if_needed exactly once,
\* before the first _make_request, and never between retries.
C8_AdmittedOnce ==
    \A t \in Threads :
        /\ in_call[t] \/ result[t] # NoResult =>
              /\ Occurrences(trace[t], "wait") = 1
              /\ trace[t][1] = "wait"
        /\ pc[t] \in {"lock1", "cs1", "sleep", "lock2", "cs2", "ret", "init"} =>
              outcomes[t] = <<>>

\* a call that was admitted, failed twice and went on to a third attempt
C8_Witness ==
    \E t \in Threads : Len(outcomes[t]) >= 3 /\ Len(sleeps[t]) >= 2

\* C9: when a _make_request fails with ZAIAuthenticationError or
\* ZAIInvalidRequestError, no further _make_request and no sleep follow, and
\* the call raises a failure of that kind.
C9_FatalNotRetried ==
    \A t \in Threads : \A i \in DOMAIN outcomes[t] :
        LET e == outcomes[t][i].exc
        IN e.kind \in {"ZAIAuthenticationError", "ZAIInvalidRequestError"} =>
              /\ i = Len(outcomes[t])
              /\ Len(sleeps[t]) = i - 1
              /\ trace[t][Len(trace[t])] = "request"
              /\ pc[t] = "idle"
              /\ result[t].status = "raised"
              /\ result[t].exc.kind = e.kind

\* an invalid-request failure met on a retry
C9_Witness ==
    \E t \in Threads :
        /\ Len(outcomes[t]) >= 2
        /\ outcomes[t][Len(outcomes[t])].exc.kind = "ZAIInvalidRequestError"
        /\ result[t].status = "raised"

\* every _make_request of the call so far failed with ZAIServerError
AlwaysServerError(t) ==
    \A i \in DOMAIN outcomes[t] : outcomes[t][i].exc.kind = "ZAIServerError"

\* C10: with max_retries = n >= 0 and a Transport failing every time with
\* ZAIServerError, _make_request is called exactly n+1 times and the call
\* then raises a ZAIServerError.
C10_ServerErrorExhaustion ==
    \A t \in Threads :
        (max_retries >= 0 /\ AlwaysServerError(t)) =>
            /\ Len(outcomes[t]) <= max_retries + 1
            /\ result[t] # NoResult =>
                  /\ Len(outcomes[t]) = max_retries + 1
                  /\ result[t].status = "raised"
                  /\ result[t].exc.kind = "ZAIServerError"

\* the call ended by the raise that follows the while loop, after at least
\* one _make_request
Exhausted(t) ==
    /\ result[t].status = "raised"
    /\ outcomes[t] # <<>>
    /\ Len(sleeps[t]) = Len(outcomes[t])

\* C11: when retries are exhausted the call raises the failure of the last
\* _make_request unchanged: same kind, message, status_code and response_data,
\* whether it was a ZAIRateLimitError, a ZAIServerError or a plain ZAIApiError.
C11_LastFailureUnchanged ==
    \A t \in Threads :
        Exhausted(t) => result[t].exc = outcomes[t][Len(outcomes[t])].exc

\* the failure carries a retry_after entry in its response data
CarriesRetryAfter(e) == \E p \in e.response_data : p[1] = "retry_after"

\* the retry_after value the failure carries
CarriedRetryAfter(e) ==
    (CHOOSE p \in e.response_data : p[1] = "retry_after")[2]

\* C13: the sleep that follows a ZAIRateLimitError carrying retry_after = r
\* lasts exactly r, whatever r is.
C13_RetryAfterHonoured ==
    \A t \in Threads : \A i \in DOMAIN sleeps[t] :
        LET e == outcomes[t][i].exc
        IN (e.kind = "ZAIRateLimitError" /\ CarriesRetryAfter(e)) =>
               sleeps[t][i] = CarriedRetryAfter(e)

RECURSIVE Pow2(_)
Pow2(n) == IF n = 0 THEN 1 ELSE 2 * Pow2(n - 1)

\* the handler of failure e slept for the delay the server named
SleptRetryAfter(e) ==
    /\ e.kind = "ZAIRateLimitError"
    /\ CarriesRetryAfter(e)
    /\ CarriedRetryAfter(e) # 0

\* j: the failures of the call so far whose handler slept for backoff_time
BackoffSleeps(t) ==
    Cardinality({i \in DOMAIN outcomes[t] : ~SleptRetryAfter(outcomes[t][i].exc)})

\* C14 as stated: between two attempts backoff_time is
\* min(initial_backoff * 2^j, max_backoff) and retry_count is the number of
\* failures handled so far.
C14_BackoffClosedForm ==
    \A t \in Threads :
        pc[t] = "loop" =>
            /\ backoff_time[t] =
                   Min(initial_backoff * Pow2(BackoffSleeps(t)), max_backoff)
            /\ retry_count[t] = Len(outcomes[t])

\* C14 (amended): a failure handled with the server's retry_after delay
\* leaves backoff_time as it is and still adds one to retry_count: between
\* two attempts backoff_time is initial_backoff when j = 0 and
\* min(initial_backoff * 2^j, max_backoff) when j >= 1, and retry_count is the
\* number of failures handled so far.
C14_BackoffFrame ==
    \A t \in Threads :
        pc[t] = "loop" =>
            /\ backoff_time[t] =
                   IF BackoffSleeps(t) = 0 THEN initial_backoff
                   ELSE Min(initial_backoff * Pow2(BackoffSleeps(t)), max_backoff)
            /\ retry_count[t] = Len(outcomes[t])

\* two failures have been handled, one with the server's delay and one with
\* the backoff delay
C14_Witness ==
    \E t \in Threads :
        /\ pc[t] = "loop"
        /\ retry_count[t] >= 2
        /\ BackoffSleeps(t) >= 1
        /\ BackoffSleeps(t) < Len(outcomes[t])

\* none of the failures of the call so far carries a retry_after entry
NoRetryAfter(t) ==
    \A i \in DOMAIN outcomes[t] : ~CarriesRetryAfter(outcomes[t][i].exc)

\* C12: when no failure carries a retry_after value, the first backoff sleep
\* of a call lasts initial_backoff and each later one min(2 * previous,
\* max_backoff); with initial_backoff = 1 and max_backoff = 60 the sleeps are
\* 1, 2, 4, 8, 16, 32, 60, 60, ...: never decreasing, never above max_backoff.
C12_BackoffSequence ==
    \A t \in Threads :
        NoRetryAfter(t) =>
            /\ \A k \in DOMAIN sleeps[t] :
                  sleeps[t][k] = IF k = 1 THEN initial_backoff
                                 ELSE Min(2 * sleeps[t][k - 1], max_backoff)
            /\ (initial_backoff = 1 /\ max_backoff = 60) =>
                  \A k \in DOMAIN sleeps[t] :
                      /\ sleeps[t][k] = IF k <= 6 THEN Pow2(k - 1) ELSE 60
                      /\ sleeps[t][k] <= max_backoff
                      /\ k > 1 => sleeps[t][k - 1] <= sleeps[t][k]

\* eight sleeps of the default agent, the last two at the cap
C12_Witness ==
    \E t \in Threads :
        /\ NoRetryAfter(t)
        /\ initial_backoff = 1 /\ max_backoff = 60
        /\ Len(sleeps[t]) >= 8
        /\ sleeps[t][7] = 60 /\ sleeps[t][8] = 60

\* C15: with max_retries >= 0 a call of _make_request_with_retry makes at
\* least one and at most max_retries + 1 calls of _make_request, whatever
\* their outcomes, and then ends: it returns after a successful one or raises
\* a failure.
C15_BoundedAttempts ==
    /\ [](\A t \in Threads :
            max_retries >= 0 =>
                /\ Len(outcomes[t]) <= max_retries + 1
                /\ result[t] # NoResult =>
                      /\ Len(outcomes[t]) >= 1
                      /\ result[t].status \in {"returned", "raised"}
                      /\ result[t].status = "returned" <=>
                            outcomes[t][Len(outcomes[t])].ok)
    /\ \A t \in Threads : in_call[t] ~> result[t] # NoResult

\* a call that used all its attempts
C15_Witness ==
    \E t \in Threads :
        /\ max_retries >= 2
        /\ result[t] # NoResult
        /\ Len(outcomes[t]) = max_retries + 1

\* the failure kinds a caller of search may receive
TypedFailures ==
    {"ZAIApiError", "ZAIAuthenticationError", "ZAIRateLimitError",
     "ZAIInvalidRequestError", "ZAIServerError"}

\* C16: a call of search or search_with_request ends with a SearchResponse
\* or with a failure of the closed set of ZAIApiError kinds, wherever the
\* condition arose: validation, transport or response transformation.
C16_TypedFailuresOnly ==
    \A t \in Threads :
        response[t].status = "raised" => response[t].exc.kind \in TypedFailures

\* the search of thread t ended in the validation of its arguments: it is
\* over and no SearchRequest was built
ValidationFailed(t) == response[t] # NoSearch /\ request[t] = NoRequest

\* C17: when the arguments of search fail validation, _make_request is never
\* called, nothing is slept or retried, and the failure raised is a
\* ZAIInvalidRequestError.
C17_ValidationFailure ==
    \A t \in Threads :
        ValidationFailed(t) =>
            /\ outcomes[t] = <<>> /\ sleeps[t] = <<>> /\ trace[t] = <<>>
            /\ response[t].status = "raised"
            /\ response[t].exc.kind = "ZAIInvalidRequestError"

\* the invariants of SearchRequest
WellFormed(req) ==
    /\ req.query \notin {"", None}
    /\ 1 <= req.num_results /\ req.num_results <= 20
    /\ req.search_type \in {"web", "news", "images"}
    /\ req.safe_search \in {"moderate", "strict", "off"}
    /\ req.language # None => Len(req.language) = 2
    /\ req.region # None => Len(req.region) = 2

\* C18: every request that _make_request sends, through search or
\* search_with_request, has a non-empty query, num_results in 1..20, a
\* search_type and a safe_search of their enums, and 2-letter language and
\* region when they are given.
C18_OnlyValidRequestsSent ==
    \A t \in Threads :
        (\E i \in DOMAIN outcomes[t] : outcomes[t][i].sent = 1) =>
            /\ request[t] # NoRequest
            /\ WellFormed(request[t])

\* the failure kind the status code alone calls for ("" for 200)
KindOfStatus(st) ==
    IF st = 401 THEN "ZAIAuthenticationError"
    ELSE IF st = 429 THEN "ZAIRateLimitError"
    ELSE IF st = 400 THEN "ZAIInvalidRequestError"
    ELSE IF st \in 500..599 THEN "ZAIServerError"
    ELSE IF st # 200 THEN "ZAIApiError"
    ELSE ""

\* C19: a response whose status code is not 200 makes _make_request raise
\* the failure of that status code, carrying the code, whether the body is
\* empty, JSON or not JSON.
C19_ClassifiedByStatus ==
    \A t \in Threads : \A i \in DOMAIN outcomes[t] :
        LET o == outcomes[t][i]
        IN (o.response.net = "response" /\ o.response.status_code # 200) =>
               /\ ~o.ok
               /\ o.exc.kind = KindOfStatus(o.response.status_code)
               /\ o.exc.status_code = o.response.status_code

\* C20: without an authenticator every _make_request raises
\* ZAIAuthenticationError and calls requests.get zero times, and
\* _make_request_with_retry raises it after that one _make_request, with no
\* sleep and no retry; a _make_request never calls requests.get twice.
C20_NoAuthenticator ==
    \A t \in Threads :
        /\ \A i \in DOMAIN outcomes[t] : outcomes[t][i].sent <= 1
        /\ authenticator = NoAuthenticator =>
              /\ \A i \in DOMAIN outcomes[t] :
                    /\ ~outcomes[t][i].ok
                    /\ outcomes[t][i].exc.kind = "ZAIAuthenticationError"
                    /\ outcomes[t][i].sent = 0
                    /\ outcomes[t][i].response = NotSent
              /\ outcomes[t] # <<>> =>
                    /\ Len(outcomes[t]) = 1
                    /\ sleeps[t] = <<>>
                    /\ trace[t] = <<"wait", "request">>
                    /\ pc[t] \in {"back", "idle"}
                    /\ result[t] = Result("raised", outcomes[t][1].exc, NoBody)
              /\ response[t].status # "returned"

\* a search on an agent without authenticator, with retries allowed, that
\* has ended
C20_Witness ==
    \E t \in Threads :
        /\ authenticator = NoAuthenticator
        /\ max_retries = 1
        /\ Len(outcomes[t]) = 1
        /\ response[t].status = "raised"

\* ------------------------------------------------- the transformation
\* the search of t has returned a SearchResponse built from the payload
Transformed(t) == pc[t] = "idle" /\ response[t].status = "returned"
PayloadOf(t) == outcomes[t][Len(outcomes[t])].data

RECURSIVE Join(_)
Join(pieces) == IF pieces = <<>> THEN "" ELSE Head(pieces) \o Join(Tail(pieces))

\* the positions of the "/" of a url, and its k-th "/"
Slashes(url) == {i \in DOMAIN url : url[i] = "/"}
Slash(url, k) ==
    CHOOSE i \in Slashes(url) : Cardinality({j \in Slashes(url) : j <= i}) = k

\* the text between the second "/" and the third (or the end) of a url of at
\* least three "/"-delimited segments; "" for a url of fewer segments
ThirdSegment(url) ==
    IF Cardinality(Slashes(url)) + 1 < 3 THEN ""
    ELSE LET from == Slash(url, 2) + 1
             to == IF Cardinality(Slashes(url)) >= 3 THEN Slash(url, 3) - 1
                   ELSE Len(url)
         IN Join(SubSeq(url, from, to))

\* C21: the domain of every result is the third "/"-delimited segment of its
\* url when the url has at least three segments, and "" otherwise
C21_DomainIsThirdSegment ==
    \A t \in Threads : Transformed(t) =>
        \A i \in DOMAIN response[t].value.results :
            LET r == response[t].value.results[i]
            IN r.domain = ThirdSegment(r.url)

C21_Witness ==
    \E t \in Threads :
        /\ Transformed(t)
        /\ \E i \in DOMAIN response[t].value.results :
               LET r == response[t].value.results[i]
               IN /\ r.url = <<"https:", "/", "/", "example.com", "/", "path?q=1">>
                  /\ r.domain = "example.com"

\* the url https://example.com: a scheme and a host, no path
NoPathUrl == <<"https:", "/", "/", "example.com">>

\* C22 as stated: a result whose url is https://example.com has domain ""
C22_NoPathEmptyDomain ==
    \A t \in Threads : Transformed(t) =>
        \A i \in DOMAIN response[t].value.results :
            response[t].value.results[i].url = NoPathUrl
                => response[t].value.results[i].domain = ""

\* C22: a result whose url is https://example.com has domain example.com
C22_NoPathHostDomain ==
    \A t \in Threads : Transformed(t) =>
        \A i \in DOMAIN response[t].value.results :
            response[t].value.results[i].url = NoPathUrl
                => response[t].value.results[i].domain = "example.com"

C22_Witness ==
    \E t \in Threads :
        /\ Transformed(t)
        /\ PayloadOf(t).results = <<Entry("Test Result", NoPathUrl)>>
        /\ response[t].value.results[1].url = NoPathUrl

\* v is the value the pairs give to key, or default when no pair has the key
FieldIs(fields, key, default, v) ==
    IF \E p \in fields : p[1] = key
    THEN \A p \in fields : p[1] = key => v = p[2]
    ELSE v = default

\* C23: query and search_type of the response are the request's; a payload
\* field that is present is copied, an absent one defaults: total_results to
\* the number of results, search_time to 0, has_more to false, next_page_token
\* to None, published_date and thumbnail_url of each result to None
C23_DefaultsAndCopies ==
    \A t \in Threads : Transformed(t) =>
        LET v == response[t].value
            b == PayloadOf(t)
        IN /\ v.query = request[t].query
           /\ v.search_type = request[t].search_type
           /\ FieldIs(b.fields, "total_results", Len(v.results), v.total_results)
           /\ FieldIs(b.fields, "search_time", 0, v.search_time)
           /\ FieldIs(b.fields, "has_more", FALSE, v.has_more)
           /\ FieldIs(b.fields, "next_page_token", None, v.next_page_token)
           /\ \A i \in DOMAIN v.results :
                  /\ i \in DOMAIN b.results
                  /\ FieldIs(b.results[i].fields, "published_date", None,
                             v.results[i].published_date)
                  /\ FieldIs(b.results[i].fields, "thumbnail_url", None,
                             v.results[i].thumbnail_url)
                  /\ \A p \in b.results[i].fields :
                         /\ p[1] = "snippet" => v.results[i].snippet = p[2]
                         /\ p[1] = "position" => v.results[i].position = p[2]

\* the minimal payload of the tests: one result, no optional field
C23_Witness ==
    \E t \in Threads :
        /\ Transformed(t)
        /\ PayloadOf(t).fields = {}
        /\ Len(PayloadOf(t).results) = 1
        /\ PayloadOf(t).results[1].fields = {}
        /\ response[t].value.total_results = 1
        /\ response[t].value.results[1].published_date = None
        /\ request[t].search_type = "news"

\* C24: the results of the response are as many as the entries of the
\* payload's "results" list, in the same order
C24_SameLengthSameOrder ==
    \A t \in Threads : Transformed(t) =>
        LET v == response[t].value
            b == PayloadOf(t)
        IN /\ Len(v.results) = Len(b.results)
           /\ \A i \in DOMAIN v.results :
                  /\ b.results[i].title # AbsentField
                         => v.results[i].title = b.results[i].title
                  /\ b.results[i].url # AbsentUrl
                         => v.results[i].url = b.results[i].url

C24_Witness ==
    \E t \in Threads :
        /\ Transformed(t)
        /\ Len(response[t].value.results) = MaxResults
        /\ response[t].value.results[1].title = "Test Result 1"
        /\ response[t].value.results[2].title = "Test Result 2"

\* -------------------------------------------------------------- reset
\* the calls k+1 .. k+n of the log are acquire_token calls
AcquiresAfter(k, n) ==
    /\ k + n <= Len(log)
    /\ \A i \in 1..n : log[k + i].op = "acquire_token"

\* C25: whatever the state of the limiter, reset leaves max_requests tokens;
\* a get_available_tokens that follows it returns max_requests, and the
\* acquire_token calls that follow it succeed, up to max_requests of them
C25_ResetRefills ==
    /\ (log # <<>> /\ log[Len(log)].op = "reset") => tokens = Full
    /\ \A k \in DOMAIN log : log[k].op = "reset" =>
           /\ (k < Len(log) /\ log[k + 1].op = "get_available_tokens")
                  => log[k + 1].val = max_requests
           /\ \A n \in 1..max_requests :
                  AcquiresAfter(k, n) => log[k + n].ok

\* a token was taken, the reset came before any refill, and max_requests
\* acquire_token calls followed
C25_Witness ==
    \E k \in DOMAIN log :
        /\ k > 1
        /\ log[k].op = "reset"
        /\ log[k - 1].op = "acquire_token" /\ log[k - 1].ok
        /\ log[k - 1].at = log[k].at
        /\ max_requests = MaxCapacity
        /\ AcquiresAfter(k, max_requests)
        /\ log[k + max_requests].ok

\* ------------------------------------------------------------- refill
\* the tokens a locked section had after its refill, before it took one
AfterRefill(o) ==
    IF o.op \in {"acquire_token", "wait_if_needed", "wait_after_sleep"} /\ o.ok
    THEN o.after + time_window
    ELSE o.after

\* C30: the refill at the start of a locked section, e >= 0 after the last
\* one, sets tokens to min(max_requests, tokens + e * max_requests /
\* time_window) and never lowers them; from an empty bucket half a window
\* gives half the capacity and a whole window the whole capacity
C30_RefillAmount ==
    (obs.op \notin {"none", "reset"}) =>
        /\ obs.elapsed >= 0
        /\ AfterRefill(obs) = Min(Full, obs.before + obs.elapsed * max_requests)
        /\ AfterRefill(obs) >= obs.before
        /\ (obs.before = 0 /\ 2 * obs.elapsed = time_window)
               => 2 * AfterRefill(obs) = Full
        /\ (obs.before = 0 /\ obs.elapsed = time_window)
               => AfterRefill(obs) = Full

\* half a window after the bucket of two tokens was emptied, one is back
C30_Witness ==
    /\ obs.op = "get_available_tokens"
    /\ max_requests = 2
    /\ obs.before = 0
    /\ 2 * obs.elapsed = time_window
    /\ obs.val = 1

\* ----------------------------------------------------- sleep and lock
\* the steps of thread u inside the limiter
LimiterStep(u) ==
    \/ AcquireLock(u)
    \/ acquire_token(u) \/ can_make_request(u) \/ get_available_tokens(u)
    \/ get_time_until_next_token(u) \/ reset(u)
    \/ wait_if_needed(u) \/ wait_after_sleep(u) \/ wait_return(u)

\* C28: a thread asleep in wait_if_needed does not hold the lock; only a
\* thread inside a locked section holds it; and every thread that is inside a
\* call and not asleep can take its next step, or waits for the lock while its
\* holder can: no interleaving of limiter operations deadlocks
C28_SleepOutsideLock ==
    /\ \A t \in Threads : pc[t] = "sleep" => lock # t
    /\ \A t \in Threads : lock = t => pc[t] \in {"cs1", "cs2"}
    /\ \A u \in Threads : pc[u] \in {"lock1", "cs1", "lock2", "cs2", "ret"} =>
           \/ ENABLED LimiterStep(u)
           \/ \E h \in Threads \ {u} : lock = h /\ ENABLED LimiterStep(h)

\* while t is asleep, another thread has just completed a reset
C28_Witness ==
    \E t \in Threads :
        /\ pc[t] = "sleep" /\ now < wake[t]
        /\ obs.op = "reset" /\ obs.t # t

\* the calls that returned without sleeping, and those that slept
NoWaits == {t \in Threads : wlog[t].done /\ wlog[t].sleeps = 0}
Waits == {t \in Threads : wlog[t].sleeps >= 1}

\* C29: every thread calls wait_if_needed on the full bucket of max_requests <
\* N tokens, nothing is refilled before all of them have made the first check:
\* then exactly max_requests calls return a waited time of 0 without sleeping,
\* and the other N - max_requests sleep and return a positive waited time
C29_ConcurrentWaiters ==
    max_requests < Cardinality(Threads) =>
        /\ \A t \in NoWaits : wlog[t].waited = 0
        /\ \A t \in Waits : pc[t] = "idle" => wlog[t].done /\ wlog[t].waited > 0
        /\ (\A t \in Threads : first_check_done(t)) =>
               /\ Cardinality(NoWaits) = max_requests
               /\ Cardinality(Waits) = Cardinality(Threads) - max_requests

\* one token, three threads: all have returned, one without waiting, two
\* after a sleep
C29_Witness ==
    /\ max_requests = 1
    /\ \A t \in Threads : wlog[t].done
    /\ Cardinality(NoWaits) = 1
    /\ Cardinality({t \in Threads : wlog[t].sleeps = 1 /\ wlog[t].waited > 0}) = 2

\* ------------------------------------------------------ authenticator
\* a non-empty secret
Supplied(key) == key # NoneKey /\ Len(key) > 0

\* the key pattern of the authenticator: MinKeyLen or more characters, each a
\* letter, a digit, ".", "_" or "-"
InKeyPattern(key) ==
    Len(key) >= MinKeyLen /\ {key[i] : i \in DOMAIN key} \subseteq KeyChars

\* the secret the claim says the constructor uses
SecretOf(a) == IF Supplied(a.api_key) THEN a.api_key ELSE a.config.api_key
HasSecret(a) ==
    Supplied(a.api_key) \/ (a.config.present /\ Supplied(a.config.api_key))

\* C26: the constructor uses the explicit api_key when one is given, else the
\* config's; with no non-empty secret it raises ZAIAuthenticationError, with a
\* secret that does not match the key pattern it raises ZAIInvalidRequestError
\* and no authenticator is created; otherwise the authenticator holds the
\* secret
C26_Construction ==
    auth_call.status # "none" =>
        /\ ~HasSecret(auth_call) =>
               /\ auth_call.status = "raised"
               /\ auth_call.exc.kind = "ZAIAuthenticationError"
        /\ (HasSecret(auth_call) /\ ~InKeyPattern(SecretOf(auth_call))) =>
               /\ auth_call.status = "raised"
               /\ auth_call.exc.kind = "ZAIInvalidRequestError"
        /\ (HasSecret(auth_call) /\ InKeyPattern(SecretOf(auth_call))) =>
               /\ auth_call.status = "created"
               /\ auth_call.key = SecretOf(auth_call)
        /\ auth_call.status = "raised" => auth_call.key = NoneKey

\* an explicit key overrides the different key of the config
C26_Witness ==
    /\ auth_call.status = "created"
    /\ auth_call.config.present
    /\ InKeyPattern(auth_call.config.api_key)
    /\ auth_call.config.api_key # auth_call.api_key
    /\ auth_call.key = auth_call.api_key

\* C27: _validate_api_key raises ZAIInvalidRequestError for every key that is
\* not zai_ followed by exactly 32 alphanumeric characters
C27_OnlyZaiKeysPass ==
    (auth_call.checked # NoneKey /\ ~config_pattern_match(auth_call.checked)) =>
        auth_call.verdict.kind = "ZAIInvalidRequestError"

\* ------------------------------------------------------------ queries
Queries == {"can_make_request", "get_available_tokens", "get_time_until_next_token"}

\* C37: a query takes no token: it leaves at least the tokens it found;
\* get_available_tokens returns the whole tokens of the refilled count, and
\* get_time_until_next_token returns 0 when that count is one token or more and
\* time_window / max_requests otherwise, whatever fraction of a token is there
C37_QueriesTakeNothing ==
    obs.op \in Queries =>
        /\ tokens >= obs.before
        /\ tokens = Min(Full, obs.before + obs.elapsed * max_requests)
        /\ obs.op = "get_available_tokens" =>
               /\ obs.val * time_window <= tokens
               /\ tokens < (obs.val + 1) * time_window
        /\ obs.op = "get_time_until_next_token" =>
               IF tokens >= time_window THEN obs.val = 0
               ELSE obs.val * max_requests = time_window

\* half a token is in the bucket: the time returned is the whole interval
C37_Witness ==
    /\ obs.op = "get_time_until_next_token"
    /\ 0 < tokens /\ tokens < time_window
    /\ obs.val * max_requests = time_window

\* ---------------------------------------------------- additive refill
\* the calls i+1 .. j of the log took no token and did not reset the bucket
NoTokenTaken(i, j) ==
    \A k \in (i + 1)..j :
        \/ log[k].op = "get_available_tokens"
        \/ log[k].op = "acquire_token" /\ ~log[k].ok

\* C38: when no token is taken between two calls, the tokens left by the later
\* one are those a single refill over the whole time between them gives,
\* however many queries and failed acquire_token calls refilled in between
C38_RefillAdditive ==
    \A i, j \in DOMAIN log :
        (i < j /\ NoTokenTaken(i, j)) =>
            log[j].left = Min(Full, log[i].left + (log[j].at - log[i].at) * max_requests)

\* a refill in two parts, neither reaching the capacity
C38_Witness ==
    \E i, j \in DOMAIN log :
        /\ j >= i + 2
        /\ NoTokenTaken(i, j)
        /\ log[i].at < log[i + 1].at /\ log[i + 1].at < log[j].at
        /\ log[i].left < log[i + 1].left
        /\ log[i + 1].left < log[j].left
        /\ log[j].left < Full

\* ------------------------------------------------ one call, its tokens
\* C32: a call of _make_request_with_retry takes at most one token from the
\* limiter, whatever the number of its _make_request attempts (at most
\* max_retries + 1)
C32_OneTokenPerCall ==
    \A t \in Threads : (in_call[t] \/ result[t] # NoResult) =>
        /\ wlog[t].taken <= 1
        /\ count.wait_taken + count.acq_true <= 1
        /\ tokens >= 0
        /\ max_retries >= 0 => Len(outcomes[t]) <= max_retries + 1
        /\ outcomes[t] # <<>> => wlog[t].done

\* the fourth attempt of a call that took its one token
C32_Witness ==
    \E t \in Threads :
        /\ Len(outcomes[t]) = MaxRetries + 1
        /\ wlog[t].taken = 1
        /\ count.wait_taken = 1

\* C34: a call that ends without any _make_request (max_retries is negative)
\* raises ZAIApiError("Request failed after maximum retries")
C34_ExhaustedWithoutFailure ==
    \A t \in Threads : result[t] # NoResult =>
        /\ max_retries < 0 <=> outcomes[t] = <<>>
        /\ outcomes[t] = <<>> =>
               /\ result[t].status = "raised"
               /\ result[t].exc.kind = "ZAIApiError"
               /\ result[t].exc.message = "Request failed after maximum retries"
               /\ result[t].data = NoBody

C34_Witness ==
    \E t \in Threads :
        /\ max_retries = -1
        /\ wlog[t].done
        /\ outcomes[t] = <<>>
        /\ result[t].status = "raised"

\* C35: a successful _make_request is the last of its call: no sleep and no
\* attempt follows it, the call returns its payload, and nothing is left of
\* the failures of the earlier attempts
C35_SuccessReturnsAtOnce ==
    \A t \in Threads : \A i \in DOMAIN outcomes[t] :
        outcomes[t][i].ok =>
            /\ i = Len(outcomes[t])
            /\ Len(sleeps[t]) = i - 1
            /\ trace[t][Len(trace[t])] = "request"
            /\ ~in_call[t]
            /\ result[t].status = "returned"
            /\ result[t].data = outcomes[t][i].data
            /\ result[t].exc = NoException

\* a payload with a result returned by the third attempt
C35_Witness ==
    \E t \in Threads :
        /\ Len(outcomes[t]) = 3
        /\ outcomes[t][3].ok
        /\ outcomes[t][3].data.results # <<>>
        /\ result[t].status = "returned"

\* the number of "request" events among the first p events of a trace
RequestsUpTo(tr, p) == Cardinality({q \in 1..p : tr[q] = "request"})

Retryable(e) ==
    e.kind \in {"ZAIApiError", "ZAIRateLimitError", "ZAIServerError"}

Unclassified(r) ==
    \/ r.net \in {"timeout", "connection"}
    \/ r.net = "response" /\ r.status_code = 200 /\ r.content # "json"

UnclassifiedMessages(r) ==
    IF r.net = "timeout" THEN {"Request timed out after 30 seconds"}
    ELSE IF r.net = "connection" THEN {"Failed to connect to the Z.AI API"}
    ELSE {"Request failed: invalid JSON", "Failed to parse API response as JSON"}

\* C33: a timeout, a connection failure and an unparseable 200 body each make
\* _make_request raise a plain ZAIApiError (no status code) with the message
\* of its case, and the retry loop handles it as any ZAIApiError: it sleeps
\* for the backoff, tries again while retries are left, and at the end raises
\* a ZAIApiError with the same message
C33_UnclassifiedFailures ==
    \A t \in Threads : \A i \in DOMAIN outcomes[t] :
        LET o == outcomes[t][i]
        IN Unclassified(o.response) =>
            /\ ~o.ok
            /\ o.sent = 1
            /\ o.exc.kind = "ZAIApiError"
            /\ o.exc.status_code = NoStatus
            /\ o.exc.message \in UnclassifiedMessages(o.response)
            /\ Len(sleeps[t]) >= i
            /\ sleeps[t][i] \in {initial_backoff, 2 * initial_backoff}
            /\ i = 1 => sleeps[t][i] = initial_backoff
            /\ result[t] # NoResult =>
                   IF i <= max_retries THEN Len(outcomes[t]) > i
                   ELSE result[t] = Result("raised", ZAIApiError(o.exc.message), NoBody)

\* a timeout, then a 200 response with invalid content, then the failure
C33_Witness ==
    \E t \in Threads :
        /\ Len(outcomes[t]) = 2
        /\ outcomes[t][1].response.net = "timeout"
        /\ outcomes[t][2].response.content = "invalid"
        /\ outcomes[t][2].response.status_code = 200
        /\ sleeps[t] = <<1, 2>>
        /\ result[t].status = "raised"
        /\ response[t] = Raised(ZAIApiError("Failed to parse API response as JSON"))

\* ------------------------------------------------- concurrent calls
\* a call made alone that meets the outcomes outs, from attempt i on: how it
\* ends (if outs is enough for it to end), its sleeps and its attempts
RECURSIVE Alone(_, _, _, _, _, _)
Alone(outs, i, n, backoff, last, slept) ==
    IF ~(n <= max_retries)
    THEN [result |-> Result("raised",
                            IF last # NoException THEN last
                            ELSE ZAIApiError("Request failed after maximum retries"),
                            NoBody),
          sleeps |-> slept, attempts |-> i - 1]
    ELSE IF i > Len(outs)
    THEN [result |-> NoResult, sleeps |-> slept, attempts |-> i - 1]
    ELSE LET o == outs[i]
             after == retry_after_of(o.exc)
             rate == o.exc.kind = "ZAIRateLimitError"
         IN IF o.ok
            THEN [result |-> Result("returned", NoException, o.data),
                  sleeps |-> slept, attempts |-> i]
            ELSE IF o.exc.kind \in {"ZAIAuthenticationError", "ZAIInvalidRequestError"}
            THEN [result |-> Result("raised", o.exc, NoBody),
                  sleeps |-> slept, attempts |-> i]
            ELSE Alone(outs, i + 1, n + 1,
                       IF rate /\ after # 0 THEN backoff ELSE Min(backoff * 2, max_backoff),
                       IF rate THEN o.exc ELSE ZAIApiError(o.exc.message),
                       Append(slept, IF rate /\ after # 0 THEN after ELSE backoff))

\* C31: whatever the other call does and meets, a call makes the attempts,
\* sleeps the backoff sleeps and ends the way it would alone with its own
\* _make_request outcomes; only the limiter is shared
C31_CallsIndependent ==
    \A t \in Threads :
        LET alone == Alone(outcomes[t], 1, 0, initial_backoff, NoException, <<>>)
        IN /\ Len(outcomes[t]) = alone.attempts
           /\ sleeps[t] = alone.sleeps
           /\ result[t] # NoResult => result[t] = alone.result
           /\ alone.result = NoResult => result[t] = NoResult

\* one call fails three times with 500 and sleeps 1, 2 and 3 while the other
\* call, started before the first ended, returns at its first attempt
C31_Witness ==
    /\ max_retries = 2
    /\ sleeps["t1"] = <<1, 2, 3>>
    /\ result["t1"].status = "raised"
    /\ Len(outcomes["t2"]) = 1
    /\ result["t2"].status = "returned"
    /\ wlog["t1"].waited > 0 \/ wlog["t2"].waited > 0

====
